---- MODULE Spec2Model ----
(***************************************************************************)
(* Model of bot.py: a Telegram bot that turns an HLS playlist URL (given   *)
(* directly or hidden in an embed page) into one concatenated .ts file and *)
(* sends it back.  The file holds two variants of the program, one after   *)
(* the other; the second one runs once the first client has disconnected.  *)
(*                                                                         *)
(* Text (str and bytes) is a sequence of one-character strings, so that    *)
(* startswith, rsplit, splitlines, urljoin and re.search are computed on   *)
(* characters as the code computes them.                                   *)
(***************************************************************************)
EXTENDS Integers, Sequences, FiniteSets, TLC

(* ------------------------------ bounds --------------------------------- *)
MaxJobs == 1          \* messages handled in one run
MaxLines == 2         \* lines of a playlist body drawn for the pure parse
MaxPieces == 2        \* markup pieces of an embed page drawn for the pure extraction
MaxConcJobs == 2      \* messages handled in one run of the concurrent handlers
max_workers == 1      \* threads of the default executor, min(32, cpu_count + 4), scaled down

(* --------------------------- str primitives ---------------------------- *)
Take(s, n) == SubSeq(s, 1, IF n < Len(s) THEN n ELSE Len(s))
Drop(s, n) == SubSeq(s, n + 1, Len(s))
\* s[a-1:b], clipped to the string as a Python slice is
Slice(s, a, b) == SubSeq(s, a, IF b < Len(s) THEN b ELSE Len(s))

\* F applied to the value of e: e is evaluated once, however often F uses it
With(e, F(_)) == CHOOSE r \in {F(x) : x \in {e}} : TRUE

\* str.startswith
StartsWith(s, p) == Len(p) <= Len(s) /\ SubSeq(s, 1, Len(p)) = p

\* p in s, for strings
Contains(s, p) == \E i \in 1..(Len(s) - Len(p) + 1) : SubSeq(s, i, i + Len(p) - 1) = p

\* str.find of one character, 1-based, 0 when absent
IndexOf(s, c) ==
    IF \E i \in 1..Len(s) : s[i] = c
    THEN CHOOSE i \in 1..Len(s) : s[i] = c /\ \A k \in 1..(i - 1) : s[k] # c
    ELSE 0

\* str.rfind of one character, 1-based, 0 when absent
LastIndexOf(s, c) ==
    IF \E i \in 1..Len(s) : s[i] = c
    THEN CHOOSE i \in 1..Len(s) : s[i] = c /\ \A k \in (i + 1)..Len(s) : s[k] # c
    ELSE 0

\* str.split(c): always at least one piece
RECURSIVE Split(_, _)
Split(s0, c) ==
    With(s0, LAMBDA s :
    With(IndexOf(s, c), LAMBDA i :
        IF i = 0 THEN <<s>> ELSE <<Take(s, i - 1)>> \o Split(Drop(s, i), c)))

\* c.join(parts)
RECURSIVE Join(_, _)
Join(parts, c) ==
    IF parts = <<>> THEN <<>>
    ELSE IF Len(parts) = 1 THEN parts[1]
    ELSE parts[1] \o <<c>> \o Join(Tail(parts), c)

\* b"".join / "".join of a list of strings
RECURSIVE Flatten(_)
Flatten(parts) == IF parts = <<>> THEN <<>> ELSE Head(parts) \o Flatten(Tail(parts))

\* the line boundaries of str.splitlines that the alphabet holds
LineBreaks == {"\n", "\r"}

\* str.splitlines(): "\r\n" is one boundary, no trailing empty line
RECURSIVE SplitLinesFrom(_, _)
SplitLinesFrom(s, cur) ==
    IF s = <<>> THEN (IF cur = <<>> THEN <<>> ELSE <<cur>>)
    ELSE IF Head(s) = "\r" /\ Len(s) >= 2 /\ s[2] = "\n"
         THEN <<cur>> \o SplitLinesFrom(Drop(s, 2), <<>>)
    ELSE IF Head(s) \in LineBreaks
         THEN <<cur>> \o SplitLinesFrom(Tail(s), <<>>)
    ELSE SplitLinesFrom(Tail(s), Append(cur, Head(s)))

splitlines(s) == SplitLinesFrom(s, <<>>)

(* --------------------------- urllib.parse ------------------------------ *)
Letters == {"a", "b", "c", "d", "e", "h", "i", "m", "n", "o", "p", "s", "t", "u", "x"}
Digits == {"1", "3", "8"}
scheme_chars == Letters \cup Digits \cup {"+", "-", "."}

S_http == <<"h", "t", "t", "p">>
S_https == <<"h", "t", "t", "p", "s">>
\* the members of urllib.parse.uses_relative / uses_netloc the alphabet can spell
uses_relative == {<<>>, S_http, S_https}
uses_netloc == {<<>>, S_http, S_https}

\* url.lstrip(_WHATWG_C0_CONTROL_OR_SPACE)
RECURSIVE LStrip(_)
LStrip(s) == IF s # <<>> /\ Head(s) = " " THEN LStrip(Tail(s)) ELSE s

\* the scheme test of urlsplit: <<scheme, rest>>
\*   i = url.find(':'); if i > 0 and url[0].isalpha() and all of url[:i] in scheme_chars
SplitScheme(url, scheme0) ==
    With(IndexOf(url, ":"), LAMBDA i :
        IF i > 1 /\ url[1] \in Letters /\ \A k \in 1..(i - 1) : url[k] \in scheme_chars
        THEN <<Take(url, i - 1), Drop(url, i)>>
        ELSE <<scheme0, url>>)

\* _splitnetloc(url, 2): netloc runs to the first of "/", "?", "#"
NetlocEnd(url) ==
    IF \E i \in 3..Len(url) : url[i] \in {"/", "?", "#"}
    THEN CHOOSE i \in 3..Len(url) : url[i] \in {"/", "?", "#"}
                                    /\ \A k \in 3..(i - 1) : url[k] \notin {"/", "?", "#"}
    ELSE Len(url) + 1

\* if url[:2] == '//': netloc, url = _splitnetloc(url, 2): <<netloc, rest>>
SplitNetloc(url) ==
    IF Take(url, 2) = <<"/", "/">>
    THEN With(NetlocEnd(url), LAMBDA ne : <<SubSeq(url, 3, ne - 1), Drop(url, ne - 1)>>)
    ELSE <<<<>>, url>>

\* url.split(c, 1) when c is in url: <<before, after>>, else <<url, "">>
SplitOnce(url, c) ==
    With(IndexOf(url, c), LAMBDA i :
        IF i > 0 THEN <<Take(url, i - 1), Drop(url, i)>> ELSE <<url, <<>>>>)

\* urllib.parse.urlsplit(url, scheme); params (";") are outside the alphabet,
\* so urlparse and urlsplit coincide
urlparse(url0, scheme0) ==
    With(SplitScheme(LStrip(url0), scheme0), LAMBDA a :
    With(SplitNetloc(a[2]), LAMBDA b :
    With(SplitOnce(b[2], "#"), LAMBDA c :
    With(SplitOnce(c[1], "?"), LAMBDA d :
        [scheme |-> a[1], netloc |-> b[1], path |-> d[1],
         query |-> d[2], fragment |-> c[2]]))))

\* urllib.parse.urlunsplit
urlunparse(scheme, netloc, path, query, fragment) ==
    LET u1 == IF netloc # <<>>
                 \/ (scheme # <<>> /\ scheme \in uses_netloc /\ Take(path, 2) # <<"/", "/">>)
              THEN <<"/", "/">> \o netloc
                   \o (IF path # <<>> /\ Head(path) # "/" THEN <<"/">> ELSE <<>>) \o path
              ELSE path
        u2 == IF scheme # <<>> THEN scheme \o <<":">> \o u1 ELSE u1
        u3 == IF query # <<>> THEN u2 \o <<"?">> \o query ELSE u2
    IN  IF fragment # <<>> THEN u3 \o <<"#">> \o fragment ELSE u3

\* segments[1:-1] = filter(None, segments[1:-1])
DropInnerEmpty(segs) ==
    IF Len(segs) <= 2 THEN segs
    ELSE <<segs[1]>> \o SelectSeq(SubSeq(segs, 2, Len(segs) - 1), LAMBDA x : x # <<>>)
         \o <<segs[Len(segs)]>>

\* the loop of urljoin that removes "." and ".." segments
RECURSIVE RemoveDots(_, _)
RemoveDots(segs, acc) ==
    IF segs = <<>> THEN acc
    ELSE IF Head(segs) = <<".", ".">>
         THEN RemoveDots(Tail(segs), IF acc = <<>> THEN acc ELSE Take(acc, Len(acc) - 1))
    ELSE IF Head(segs) = <<".">> THEN RemoveDots(Tail(segs), acc)
    ELSE RemoveDots(Tail(segs), Append(acc, Head(segs)))

\* base_parts = bpath.split('/'); if base_parts[-1] != '': del base_parts[-1]
BaseParts(bpath) ==
    With(Split(bpath, "/"), LAMBDA bp :
        IF bp[Len(bp)] # <<>> THEN Take(bp, Len(bp) - 1) ELSE bp)

\* the path of the joined URL, from the base path and a non-empty reference path
ResolvedPath(bpath, path) ==
    With(IF Head(path) = "/" THEN Split(path, "/")
         ELSE DropInnerEmpty(BaseParts(bpath) \o Split(path, "/")), LAMBDA segs :
    With(RemoveDots(segs, <<>>), LAMBDA rp :
    With(Join(IF segs[Len(segs)] \in {<<".">>, <<".", ".">>} THEN Append(rp, <<>>) ELSE rp, "/"),
         LAMBDA joined : IF joined = <<>> THEN <<"/">> ELSE joined)))

\* urljoin once both URLs are split: b the base, u the reference, url the reference as given
JoinParsed(b, u, url) ==
    IF u.scheme # b.scheme \/ u.scheme \notin uses_relative THEN url
    ELSE IF u.scheme \in uses_netloc /\ u.netloc # <<>>
         THEN urlunparse(u.scheme, u.netloc, u.path, u.query, u.fragment)
    ELSE IF u.path = <<>>
         THEN urlunparse(u.scheme, IF u.scheme \in uses_netloc THEN b.netloc ELSE u.netloc,
                         b.path, IF u.query = <<>> THEN b.query ELSE u.query, u.fragment)
    ELSE With(ResolvedPath(b.path, u.path), LAMBDA rpath :
              urlunparse(u.scheme, IF u.scheme \in uses_netloc THEN b.netloc ELSE u.netloc,
                         rpath, u.query, u.fragment))

\* urllib.parse.urljoin(base, url)
urljoin(base0, url0) ==
    With(base0, LAMBDA bs :
    With(url0, LAMBDA url :
        IF bs = <<>> THEN url
        ELSE IF url = <<>> THEN bs
        ELSE With(urlparse(bs, <<>>), LAMBDA b :
             With(urlparse(url, b.scheme), LAMBDA u : JoinParsed(b, u, url)))))

(* ------------------------- bytes.decode('utf-8') ----------------------- *)
\* a byte that is not valid UTF-8
BadByte == "<ff>"

\* bytes.decode() is strict: it raises UnicodeDecodeError on an invalid byte
CanDecode(bytes) == \A i \in 1..Len(bytes) : bytes[i] # BadByte
decode(bytes) == bytes

(* ------------------------- playlist parsing ---------------------------- *)
\* base = m3u8_url.rsplit('/', 1)[0] + '/'
base(m3u8_url) ==
    LET i == LastIndexOf(m3u8_url, "/")
    IN  (IF i = 0 THEN m3u8_url ELSE Take(m3u8_url, i - 1)) \o <<"/">>

\* the filter of the comprehension: if line and not line.startswith('#')
IsSegmentLine(line) == line # <<>> /\ ~StartsWith(line, <<"#">>)

\* SegmentUrl with the base and the line glued together instead of joined
SegmentUrl_Concat(m3u8_url, line) ==
    IF StartsWith(line, S_http) THEN line ELSE base(m3u8_url) \o line

\* the element of the comprehension: line if line.startswith('http') else urljoin(base, line)
SegmentUrl(m3u8_url, line) ==
    IF StartsWith(line, S_http) THEN line ELSE urljoin(base(m3u8_url), line)

\* segments = [... for line in playlist if ...], playlist = body.decode().splitlines()
segments(m3u8_url, body) ==
    With(SelectSeq(splitlines(decode(body)), IsSegmentLine), LAMBDA kept :
        [i \in 1..Len(kept) |-> SegmentUrl(m3u8_url, kept[i])])

(* --------------------- embed page: re.search --------------------------- *)
S_m3u8 == <<".", "m", "3", "u", "8">>

\* the characters excluded by [^\s'\"]
RegexDelims == {" ", "\n", "\r", "\t", "'", "\""}

\* index of the first character after "http://" or "https://" starting at i, 0 if neither
AfterScheme(html, i) ==
    IF Slice(html, i, i + 6) = S_http \o <<":", "/", "/">> THEN i + 7
    ELSE IF Slice(html, i, i + 7) = S_https \o <<":", "/", "/">> THEN i + 8
    ELSE 0

\* last index of the run of non-delimiter characters that starts at p (p - 1 if empty)
RunEnd(html, p) ==
    IF \E e \in p..Len(html) : html[e] \in RegexDelims
    THEN (CHOOSE e \in p..Len(html) : html[e] \in RegexDelims
                                      /\ \A k \in p..(e - 1) : html[k] \notin RegexDelims) - 1
    ELSE Len(html)

\* end of the match of https?://[^\s'\"]+\.m3u8[^\s'\"]* anchored at i, 0 if none:
\* both classes are greedy over the same run, so a match takes the whole run,
\* and one exists iff ".m3u8" occurs in the run after at least one character
MatchEnd(html, i) ==
    With(AfterScheme(html, i), LAMBDA p :
        IF p = 0 THEN 0
        ELSE With(RunEnd(html, p), LAMBDA e :
                  IF \E k \in (p + 1)..(e - 4) : SubSeq(html, k, k + 4) = S_m3u8 THEN e
                  ELSE 0))

\* re.search(...): the leftmost match; <<>> stands for None (a match is never empty)
re_search(html0) ==
    With(html0, LAMBDA html :
    With({i \in 1..Len(html) : MatchEnd(html, i) > 0}, LAMBDA starts :
        IF starts = {} THEN <<>>
        ELSE With(CHOOSE i \in starts : \A k \in starts : i <= k, LAMBDA i :
                  SubSeq(html, i, MatchEnd(html, i)))))

\* the body of extract_m3u8_from_embed after the GET: decode, search, raise or return
ExtractFromBody(bytes) ==
    IF ~CanDecode(bytes) THEN [ok |-> FALSE, type |-> "UnicodeDecodeError", url |-> <<>>]
    ELSE With(re_search(decode(bytes)), LAMBDA match :
              IF match = <<>> THEN [ok |-> FALSE, type |-> "ValueError", url |-> <<>>]
              ELSE [ok |-> TRUE, type |-> "none", url |-> match])

(* ------------------------------- state --------------------------------- *)
VARIABLES
    jobs,       \* one record per NewMessage event handled so far, in arrival order
    variant,    \* which of the file's two programs is connected: 1 (lines 1-107) or 2 (109-171)
    REFERER,    \* os.getenv("REFERER", ""), read once at import
    fn,         \* the pure function under test in the function-level specifications
    arg,        \* its argument
    ret,        \* its result, once called
    loop,       \* the job whose handler holds the event loop thread in a blocking call, 0 if none
    workers,    \* the jobs whose download_hls_sync runs on a thread of the default executor
    work_queue, \* the jobs handed to run_in_executor that wait for a thread, first in first out
    disk        \* the scratch directories that hold an output.ts, with its content

\* the state of the event loop, the executor and the file system
conc == <<loop, workers, work_queue, disk>>

vars == <<jobs, variant, REFERER, fn, arg, ret, conc>>

(* ------------------------------ inputs --------------------------------- *)
T_DIRECT == <<"h", "t", "t", "p", ":", "/", "/", "h", "/", "d", "/", "p", ".", "m", "3", "u", "8">>
T_EMBED == <<"h", "t", "t", "p", ":", "/", "/", "a", "n", "i", "m", "e", "1", "u", ".", "c", "o", "m", "/", "e", "m", "b", "e", "d", "/", "x">>
T_OTHER == <<"h", "i">>
T_BOTH == <<"h", "t", "t", "p", ":", "/", "/", "a", "n", "i", "m", "e", "1", "u", ".", "c", "o", "m", "/", "e", "m", "b", "e", "d", "/", "x", ".", "m", "3", "u", "8">>
\* event.raw_text of the incoming messages
Texts == {T_DIRECT, T_EMBED, T_BOTH, T_OTHER}

S_embed == <<"a", "n", "i", "m", "e", "1", "u", ".", "c", "o", "m", "/", "e", "m", "b", "e", "d", "/">>

R_SET == <<"h", "t", "t", "p", ":", "/", "/", "r", "/">>
\* values of the REFERER environment variable: unset or set
RefererEnv == {<<>>, R_SET}

PAGE_SRC == <<"<", "s", "o", "u", "r", "c", "e", " ", "s", "r", "c", "=", "\"", "h", "t", "t", "p", "s", ":", "/", "/", "c", "/", "a", ".", "m", "3", "u", "8", "\"", ">">>
PAGE_NONE == <<"<", "p", ">", "x", "<", "/", "p", ">">>
PAGE_BAD == PAGE_SRC \o <<BadByte>>
PAGE_NONE_BAD == PAGE_NONE \o <<BadByte>>
PAGE_NOHTTP == <<"<", "p", ">", "x", ".", "m", "3", "u", "8", "<", "/", "p", ">">>
PAGE_REL == <<"<", "s", "o", "u", "r", "c", "e", " ", "s", "r", "c", "=", "\"", "/", "v", "/", "a", ".", "m", "3", "u", "8", "\"", ">">>
\* what the embed host answers: an error status, or a page
EmbedResponses ==
    {[status |-> 404, body |-> <<>>]}
    \cup {[status |-> 200, body |-> b] : b \in {PAGE_SRC, PAGE_NONE, PAGE_BAD, PAGE_NONE_BAD, PAGE_NOHTTP, PAGE_REL}}

BODY_E == <<>>
BODY_0 == <<"#", "E", "X", "T", "M", "3", "U", "\n">>
BODY_1 == <<"s", "1", ".", "t", "s", "\n">>
BODY_2 == <<"#", "E", "X", "T", "M", "3", "U", "\n", "s", "1", ".", "t", "s", "\n", "s", "2", ".", "t", "s", "\n">>
\* what the playlist host answers
PlaylistResponses ==
    {[status |-> 404, body |-> <<>>]}
    \cup {[status |-> 200, body |-> b] : b \in {BODY_E, BODY_0, BODY_1, BODY_2}}

\* what a segment host answers
SegmentResponses ==
    {[status |-> 404, body |-> <<>>]}
    \cup {[status |-> 200, body |-> b] : b \in {<<"x">>, <<"y", "z">>}}

(* ------------------------------ headers -------------------------------- *)
USER_AGENT == "Mozilla/5.0"

\* HEADERS = {"User-Agent": USER_AGENT}; if REFERER: HEADERS["Referer"] = REFERER
HEADERS ==
    IF REFERER # <<>>
    THEN [UserAgent |-> USER_AGENT, Referer |-> REFERER]
    ELSE [UserAgent |-> USER_AGENT]

\* the literal headers of the second download_hls_sync
HEADERS2 == [UserAgent |-> "Mozilla/5.0"]

\* the headers download_hls_sync variant dv sends
DownloadHeaders(dv) == IF dv = 1 THEN HEADERS ELSE HEADERS2

(* --------------------------- messages, errors -------------------------- *)
\* a piece of message text: a literal of the program, or an interpolated value
Lit(s) == [lit |-> s, val |-> <<>>]
Val(v) == [lit |-> "", val |-> v]

NoError == [type |-> "none", url |-> <<>>]
\* urllib.error.HTTPError raised by urlopen; e.url holds the requested URL
HTTPError(url) == [type |-> "HTTPError", url |-> url]

\* str(e), as the f-strings of on_message interpolate it
ExcStr(e) ==
    CASE e.type = "HTTPError" -> <<Lit("HTTP Error "), Lit("404"), Lit(": "), Lit("Not Found")>>
      [] e.type = "ValueError" -> <<Lit("No .m3u8 URL found in embed page")>>
      [] e.type = "UnicodeDecodeError" ->
             <<Lit("'utf-8' codec can't decode byte 0xff: invalid start byte")>>
      [] e.type = "OSError" -> <<Lit("[Errno 28] No space left on device")>>
      [] OTHER -> <<>>

\* a call on the messaging client: event.reply, status.edit, status.delete
Signal(op, text) == [op |-> op, text |-> text]

\* an HTTP GET as the remote host sees it
Request(what, url, headers) == [what |-> what, url |-> url, headers |-> headers]

\* text.strip()
RECURSIVE RStrip(_)
RStrip(s) == IF s # <<>> /\ s[Len(s)] \in {" ", "\n", "\r", "\t"} THEN RStrip(Take(s, Len(s) - 1)) ELSE s
RECURSIVE LStripWs(_)
LStripWs(s) == IF s # <<>> /\ Head(s) \in {" ", "\n", "\r", "\t"} THEN LStripWs(Tail(s)) ELSE s
strip(s) == RStrip(LStripWs(s))

(* ------------------------------- jobs ---------------------------------- *)
\* the local state of one on_message call
NewJob(hv, text) ==
    [hv |-> hv,                 \* which on_message runs: 1 (line 71) or 2 (line 144)
     text |-> text,
     state |-> "Pending",
     kind |-> "none",           \* DirectPlaylist, EmbedPage, or none
     html |-> <<>>,             \* the embed page body read at line 36
     m3u8_url |-> <<>>,
     dv |-> 0,                  \* which download_hls the name resolved to at the call
     tmpdir |-> 0,              \* tempfile.mkdtemp(): 0 before the call
     opened |-> FALSE,          \* open(output_path, 'wb') has created the file
     segs |-> <<>>,             \* the list segments / segs
     idx |-> 0,                 \* segments fetched and written so far
     fetched |-> <<>>,          \* the segment response bodies received, in order
     file |-> <<>>,             \* the content of output.ts
     requests |-> <<>>,         \* HTTP GETs issued, in order
     signals |-> <<>>,          \* messaging calls made, in order
     error |-> NoError,         \* the exception that ended the job, if any
     sent |-> <<>>,             \* the artifacts handed to client.send_file
     done |-> FALSE]            \* on_message has returned or raised

Jobs == 1..Len(jobs)

\* mkdtemp that hands out the same directory whatever directories exist
mkdtemp_Shared == 1 + Cardinality({})

\* tempfile.mkdtemp() returns a directory that did not exist before
mkdtemp == 1 + Cardinality({j \in Jobs : jobs[j].tmpdir # 0})

Init ==
    /\ jobs = <<>>
    /\ variant = 1
    /\ REFERER \in RefererEnv
    /\ fn = "none"
    /\ arg = <<>>
    /\ ret = <<>>
    /\ loop = 0
    /\ workers = {}
    /\ work_queue = <<>>
    /\ disk = <<>>

\* a NewMessage event arrives and the registered on_message starts: text = event.raw_text.strip()
NewMessage ==
    /\ Len(jobs) < MaxJobs
    /\ \E text \in Texts : jobs' = Append(jobs, NewJob(variant, strip(text)))
    /\ UNCHANGED <<variant, REFERER, fn, arg, ret, conc>>

\* ClassifyJob with the two tests of the first program in the other order
ClassifyJob_EmbedFirst(job) ==
    IF job.hv = 1 /\ Contains(job.text, S_embed)
    THEN [job EXCEPT !.kind = "EmbedPage", !.state = "ResolvingEmbed",
                     !.signals = Append(@, Signal("reply",
                                    <<Lit("Extracting playlist URL from embed page")>>))]
    ELSE IF Contains(job.text, S_m3u8)
    THEN [job EXCEPT !.kind = "DirectPlaylist", !.m3u8_url = job.text,
                     !.state = "PlaylistResolved"]
    ELSE [job EXCEPT !.state = "Ignored", !.done = TRUE]

\* the branch on the text: lines 74-83 (first program), 146-147 (second)
ClassifyJob(job) ==
    IF Contains(job.text, S_m3u8)
    THEN [job EXCEPT !.kind = "DirectPlaylist", !.m3u8_url = job.text,
                     !.state = "PlaylistResolved"]
    ELSE IF job.hv = 1 /\ Contains(job.text, S_embed)
    THEN [job EXCEPT !.kind = "EmbedPage", !.state = "ResolvingEmbed",
                     !.signals = Append(@, Signal("reply",
                                    <<Lit("Extracting playlist URL from embed page")>>))]
    ELSE [job EXCEPT !.state = "Ignored", !.done = TRUE]

Classify(j) ==
    /\ jobs[j].state = "Pending"
    /\ jobs' = [jobs EXCEPT ![j] = ClassifyJob(jobs[j])]
    /\ UNCHANGED <<variant, REFERER, fn, arg, ret, conc>>

\* ExtractJob whose except clause replies but does not return
ExtractJob_NoReturn(job, resp) ==
    LET req == Request("embed", job.text, HEADERS)
        r == IF resp.status # 200
             THEN [ok |-> FALSE, type |-> "HTTPError", url |-> job.text]
             ELSE ExtractFromBody(resp.body)
        e == [type |-> r.type, url |-> r.url]
    IN  IF r.ok
        THEN [job EXCEPT !.requests = Append(@, req), !.html = resp.body,
                         !.m3u8_url = r.url, !.state = "PlaylistResolved"]
        ELSE [job EXCEPT !.requests = Append(@, req), !.html = resp.body, !.error = e,
                         !.signals = Append(@, Signal("reply",
                                        <<Lit("Failed to extract playlist URL: ")>> \o ExcStr(e))),
                         !.m3u8_url = job.text, !.state = "PlaylistResolved"]

\* extract_m3u8_from_embed(text) and the except clause around it (lines 78-81, 34-41)
ExtractJob(job, resp) ==
    LET req == Request("embed", job.text, HEADERS)
        r == IF resp.status # 200
             THEN [ok |-> FALSE, type |-> "HTTPError", url |-> job.text]
             ELSE ExtractFromBody(resp.body)
        e == [type |-> r.type, url |-> r.url]
    IN  IF r.ok
        THEN [job EXCEPT !.requests = Append(@, req), !.html = resp.body,
                         !.m3u8_url = r.url, !.state = "PlaylistResolved"]
        ELSE [job EXCEPT !.requests = Append(@, req), !.html = resp.body, !.error = e,
                         !.signals = Append(@, Signal("reply",
                                        <<Lit("Failed to extract playlist URL: ")>> \o ExcStr(e))),
                         !.state = "Failed", !.done = TRUE]

ExtractEmbed(j) ==
    /\ jobs[j].state = "ResolvingEmbed"
    /\ \E resp \in EmbedResponses : jobs' = [jobs EXCEPT ![j] = ExtractJob(jobs[j], resp)]
    /\ UNCHANGED <<variant, REFERER, fn, arg, ret, conc>>

\* lines 85-90 (149-154): the status reply, the scratch directory, and the call of
\* download_hls, whose name resolves to the definition current at the call
StartJob(job) ==
    [job EXCEPT !.signals = Append(@, Signal("reply", <<Lit("Downloading and merging")>>)),
                !.tmpdir = mkdtemp,
                !.dv = variant,
                !.state = "Downloading"]

StartDownload(j) ==
    /\ jobs[j].state = "PlaylistResolved"
    /\ jobs' = [jobs EXCEPT ![j] = StartJob(jobs[j])]
    /\ UNCHANGED <<variant, REFERER, fn, arg, ret, conc>>

\* DownloadFailed without the return: the error is reported and the handler goes on
DownloadFailed_NoReturn(job, e) ==
    [job EXCEPT !.error = e,
                !.signals = Append(@, Signal("edit", <<Lit("Download failed: ")>> \o ExcStr(e)))]

\* the except clause of lines 91-92 (155-156): status.edit and return
DownloadFailed(job, e) ==
    [job EXCEPT !.error = e,
                !.signals = Append(@, Signal("edit", <<Lit("Download failed: ")>> \o ExcStr(e))),
                !.state = "Failed", !.done = TRUE]

\* PlaylistJob that treats a playlist without segments as an error
PlaylistJob_EmptyRaises(job, resp) ==
    LET req == Request("playlist", job.m3u8_url, DownloadHeaders(job.dv))
        j1 == [job EXCEPT !.requests = Append(@, req)]
    IN  IF resp.status # 200 THEN DownloadFailed(j1, HTTPError(job.m3u8_url))
        ELSE IF ~CanDecode(resp.body)
             THEN DownloadFailed(j1, [type |-> "UnicodeDecodeError", url |-> <<>>])
        ELSE IF segments(job.m3u8_url, resp.body) = <<>>
             THEN DownloadFailed(j1, [type |-> "ValueError", url |-> <<>>])
        ELSE [j1 EXCEPT !.segs = segments(job.m3u8_url, resp.body), !.opened = TRUE]

\* lines 46-58 (117-129): GET the playlist, build the segment list, open the output
PlaylistJob(job, resp) ==
    LET req == Request("playlist", job.m3u8_url, DownloadHeaders(job.dv))
        j1 == [job EXCEPT !.requests = Append(@, req)]
    IN  IF resp.status # 200 THEN DownloadFailed(j1, HTTPError(job.m3u8_url))
        ELSE IF ~CanDecode(resp.body)
             THEN DownloadFailed(j1, [type |-> "UnicodeDecodeError", url |-> <<>>])
        ELSE [j1 EXCEPT !.segs = segments(job.m3u8_url, resp.body), !.opened = TRUE]

FetchPlaylist(j) ==
    /\ jobs[j].state = "Downloading"
    /\ ~jobs[j].opened
    /\ \E resp \in PlaylistResponses : jobs' = [jobs EXCEPT ![j] = PlaylistJob(jobs[j], resp)]
    /\ UNCHANGED <<variant, REFERER, fn, arg, ret, conc>>

\* Written as if the file were opened anew for every segment
Written_Overwrite(file, data) == data

\* Written with the data put in front of what the file holds
Written_Prepend(file, data) == data \o file

\* wf.write(data): the file after a successful write
Written(file, data) == file \o data

\* SegmentJob that asks again for a segment whose GET failed
SegmentJob_Retry(job, resp, wrote) ==
    LET url == job.segs[job.idx + 1]
        req == Request("segment", url, DownloadHeaders(job.dv))
        j1 == [job EXCEPT !.requests = Append(@, req)]
    IN  IF resp.status # 200 THEN j1
        ELSE IF wrote < Len(resp.body)
             THEN DownloadFailed([j1 EXCEPT !.file = Written(@, Take(resp.body, wrote))],
                                 [type |-> "OSError", url |-> <<>>])
        ELSE [j1 EXCEPT !.file = Written(@, resp.body),
                        !.fetched = Append(@, resp.body),
                        !.idx = @ + 1]

\* one turn of the loop of lines 59-62 (130-135): GET the next segment and append it;
\* written is what reached the file when the write itself failed, <<"ok">> otherwise
SegmentJob(job, resp, wrote) ==
    LET url == job.segs[job.idx + 1]
        req == Request("segment", url, DownloadHeaders(job.dv))
        j1 == [job EXCEPT !.requests = Append(@, req)]
    IN  IF resp.status # 200 THEN DownloadFailed(j1, HTTPError(url))
        ELSE IF wrote < Len(resp.body)
             THEN DownloadFailed([j1 EXCEPT !.file = Written(@, Take(resp.body, wrote))],
                                 [type |-> "OSError", url |-> <<>>])
        ELSE [j1 EXCEPT !.file = Written(@, resp.body),
                        !.fetched = Append(@, resp.body),
                        !.idx = @ + 1]

FetchSegment(j) ==
    /\ jobs[j].state = "Downloading"
    /\ jobs[j].opened
    /\ jobs[j].idx < Len(jobs[j].segs)
    /\ \E resp \in SegmentResponses : \E wrote \in 0..Len(resp.body) :
           jobs' = [jobs EXCEPT ![j] = SegmentJob(jobs[j], resp, wrote)]
    /\ UNCHANGED <<variant, REFERER, fn, arg, ret, conc>>

\* the loop ends, the file is closed, and the await of line 90 (154) returns
FinishDownload(j) ==
    /\ jobs[j].state = "Downloading"
    /\ jobs[j].opened
    /\ jobs[j].idx = Len(jobs[j].segs)
    /\ jobs' = [jobs EXCEPT ![j] = [@ EXCEPT !.state = "Merged"]]
    /\ UNCHANGED <<variant, REFERER, fn, arg, ret, conc>>

\* client.send_file(...) of lines 95-101 (159-165); nothing catches what it raises
SendJob(job, ok) ==
    IF ok THEN [job EXCEPT !.sent = Append(@, job.file), !.state = "Delivered"]
    ELSE [job EXCEPT !.error = [type |-> "DeliveryError", url |-> <<>>],
                     !.state = "Failed", !.done = TRUE]

SendFile(j) ==
    /\ jobs[j].state = "Merged"
    /\ \E ok \in BOOLEAN : jobs' = [jobs EXCEPT ![j] = SendJob(jobs[j], ok)]
    /\ UNCHANGED <<variant, REFERER, fn, arg, ret, conc>>

\* status.delete() of line 102 (166), after which on_message returns
DeleteStatus(j) ==
    /\ jobs[j].state = "Delivered"
    /\ ~jobs[j].done
    /\ jobs' = [jobs EXCEPT ![j] =
                  [@ EXCEPT !.signals = Append(@, Signal("delete", <<>>)), !.done = TRUE]]
    /\ UNCHANGED <<variant, REFERER, fn, arg, ret, conc>>

\* run_until_disconnected() of line 107 returns; lines 109-171 rebind client,
\* download_hls_sync, download_hls and on_message and connect the second program
Disconnect ==
    /\ variant = 1
    /\ variant' = 2
    /\ UNCHANGED <<jobs, REFERER, fn, arg, ret, conc>>

Next ==
    \/ NewMessage
    \/ \E j \in Jobs : Classify(j)
    \/ \E j \in Jobs : ExtractEmbed(j)
    \/ \E j \in Jobs : StartDownload(j)
    \/ \E j \in Jobs : FetchPlaylist(j)
    \/ \E j \in Jobs : FetchSegment(j)
    \/ \E j \in Jobs : FinishDownload(j)
    \/ \E j \in Jobs : SendFile(j)
    \/ \E j \in Jobs : DeleteStatus(j)
    \/ Disconnect

Spec == Init /\ [][Next]_vars

(* ----------------- the pure functions, called on their own ------------- *)
U_1 == T_DIRECT
U_2 == <<"h", "t", "t", "p", "s", ":", "/", "/", "h", "/", "p", ".", "m", "3", "u", "8">>
U_3 == <<"h", "t", "t", "p", ":", "/", "/", "h", "/", "d", "/", "p", ".", "m", "3", "u", "8", "?", "x", "=", "a", "/", "b", ".", "m", "3", "u", "8">>
U_4 == <<"h", "t", "t", "p", ":", "/", "/", "h", "/", "d", "/", "/", "p", ".", "m", "3", "u", "8">>
\* playlist URLs handed to download_hls_sync
PlaylistUrls == {U_1, U_2, U_3, U_4}

\* lines a playlist body is made of
PlaylistLines ==
    {<<>>,
     <<" ">>,
     <<"#", "a">>,
     <<" ", "#", "a">>,
     <<"a">>,
     <<"a", " ">>,
     <<".", ".", "/", "a">>,
     <<"/", "a">>,
     <<".", "/", "a">>,
     <<"a", "/", "b">>,
     <<"a", "/", "/", "b">>,
     <<"h", "t", "t", "p", ":", "/", "/", "c", "/", "a">>,
     <<"h", "t", "t", "p", ":", "a">>,
     <<"a", ":", "b">>,
     <<"a", "?", "b">>,
     <<".", ".">>,
     <<"s", "1", ".", "t", "s">>}

\* the line terminators a playlist host uses
Eols == {<<"\n">>, <<"\r", "\n">>}

\* all sequences over S of length at most n
SeqsUpTo(S, n) == UNION {[1..k -> S] : k \in 0..n}

\* the body whose lines are ls, each ended by eol
BodyOf(ls, eol) == Flatten([i \in 1..Len(ls) |-> ls[i] \o eol])

ParseArgs ==
    {[m3u8_url |-> u, lines |-> ls, body |-> BodyOf(ls, eol)] :
        u \in PlaylistUrls, ls \in SeqsUpTo(PlaylistLines, MaxLines), eol \in Eols}

V_SRC == <<"h", "t", "t", "p", "s", ":", "/", "/", "c", "/", "a", ".", "m", "3", "u", "8">>
V_REL == <<"/", "v", "/", "a", ".", "m", "3", "u", "8">>
P_BARE == <<"h", "t", "t", "p", "s", ":", "/", "/", "x", "/", "b", ".", "m", "3", "u", "8", " ">>
P_SCRIPT == <<"f", "i", "l", "e", ":", "'", "h", "t", "t", "p", ":", "/", "/", "x", "/", "b", ".", "m", "3", "u", "8", "?", "t", "=", "1", "'">>

\* pieces of markup an embed page is made of: src is the value of the piece's
\* source attribute (<<>> when the piece is no element with one), bare tells
\* whether the piece holds an http(s) .m3u8 token outside any attribute
PagePieces ==
    {[chars |-> PAGE_SRC, src |-> V_SRC, bare |-> FALSE],
     [chars |-> PAGE_REL, src |-> V_REL, bare |-> FALSE],
     [chars |-> P_BARE, src |-> <<>>, bare |-> TRUE],
     [chars |-> P_SCRIPT, src |-> <<>>, bare |-> TRUE],
     [chars |-> PAGE_NONE, src |-> <<>>, bare |-> FALSE],
     [chars |-> PAGE_NOHTTP, src |-> <<>>, bare |-> FALSE],
     [chars |-> <<BadByte>>, src |-> <<>>, bare |-> FALSE]}

ExtractArgs ==
    {[pieces |-> ps, body |-> Flatten([i \in 1..Len(ps) |-> ps[i].chars])] :
        ps \in SeqsUpTo(PagePieces, MaxPieces)}

InitFn ==
    /\ jobs = <<>>
    /\ variant = 1
    /\ REFERER = <<>>
    /\ ret = <<>>
    /\ loop = 0
    /\ workers = {}
    /\ work_queue = <<>>
    /\ disk = <<>>
    /\ \/ fn = "segments" /\ arg \in ParseArgs
       \/ fn = "extract" /\ arg \in ExtractArgs

\* lines 47-55 (118-126) applied to a fetched playlist body
CallSegments ==
    /\ fn = "segments"
    /\ ret = <<>>
    /\ ret' = <<segments(arg.m3u8_url, arg.body)>>
    /\ UNCHANGED <<jobs, variant, REFERER, fn, arg, conc>>

\* lines 36-41 applied to a fetched embed page body
CallExtract ==
    /\ fn = "extract"
    /\ ret = <<>>
    /\ ret' = <<ExtractFromBody(arg.body)>>
    /\ UNCHANGED <<jobs, variant, REFERER, fn, arg, conc>>

NextFn == CallSegments \/ CallExtract

SpecFn == InitFn /\ [][NextFn]_vars

(* ------- the handlers on the event loop, the downloads on the executor ------- *)
\* event.raw_text of the messages of a concurrent run
ConcTexts == {T_DIRECT, T_EMBED, T_OTHER}

\* what the hosts answer in a concurrent run
ConcEmbedResponses ==
    {[status |-> 404, body |-> <<>>], [status |-> 200, body |-> PAGE_SRC]}
ConcPlaylistResponses ==
    {[status |-> 404, body |-> <<>>], [status |-> 200, body |-> BODY_1]}
ConcSegmentResponses ==
    {[status |-> 404, body |-> <<>>], [status |-> 200, body |-> <<"x">>]}

\* no handler keeps the loop thread in a blocking call: the loop can run the next
\* callback or coroutine step
LoopFree == loop = 0

\* HasIdleWorker for an executor that starts a thread for every call
HasIdleWorker_Always == TRUE

\* ThreadPoolExecutor._adjust_thread_count: a thread is idle, or
\* len(self._threads) < self._max_workers and one more is started
HasIdleWorker == Cardinality(workers) < max_workers

\* output_ts = os.path.join(tmpdir, 'output.ts')
OutputPath(job) == job.tmpdir

\* a NewMessage event is dispatched: on_message runs up to its first await or to
\* its return (lines 72-77, 83, 85)
HandleMessage ==
    /\ Len(jobs) < MaxConcJobs
    /\ LoopFree
    /\ \E text \in ConcTexts :
           jobs' = Append(jobs, ClassifyJob(NewJob(variant, strip(text))))
    /\ UNCHANGED <<variant, REFERER, fn, arg, ret, conc>>

\* line 79: the coroutine calls extract_m3u8_from_embed itself, and urlopen of
\* line 36 keeps the loop thread until the embed host has answered
BeginExtract(j) ==
    /\ jobs[j].state = "ResolvingEmbed"
    /\ LoopFree
    /\ loop' = j
    /\ UNCHANGED <<jobs, variant, REFERER, fn, arg, ret, workers, work_queue, disk>>

\* the embed host answers: lines 36-41, then line 81 or the await of line 85
EndExtract(j) ==
    /\ loop = j
    /\ \E resp \in ConcEmbedResponses :
           jobs' = [jobs EXCEPT ![j] = ExtractJob(jobs[j], resp)]
    /\ loop' = 0
    /\ UNCHANGED <<variant, REFERER, fn, arg, ret, workers, work_queue, disk>>

\* lines 85-90 and 65-67: the status reply, mkdtemp, and run_in_executor(None, ...)
\* which puts the call of download_hls_sync into the queue of the default executor
Submit(j) ==
    /\ jobs[j].state = "PlaylistResolved"
    /\ LoopFree
    /\ jobs' = [jobs EXCEPT ![j] = StartJob(jobs[j])]
    /\ work_queue' = Append(work_queue, j)
    /\ UNCHANGED <<variant, REFERER, fn, arg, ret, loop, workers, disk>>

\* a thread of the executor takes the oldest waiting call
WorkerTake(j) ==
    /\ work_queue # <<>>
    /\ Head(work_queue) = j
    /\ HasIdleWorker
    /\ workers' = workers \cup {j}
    /\ work_queue' = Tail(work_queue)
    /\ UNCHANGED <<jobs, variant, REFERER, fn, arg, ret, loop, disk>>

\* the job after download_hls_sync raised on its thread and before the loop has
\* resumed on_message: nj without what the except clause of lines 91-92 does
Raised(job, nj) == [nj EXCEPT !.state = job.state, !.done = job.done, !.signals = job.signals]

\* lines 46-58 on a thread of the executor; open(output_path, 'wb') creates the
\* file or empties the one that is there
WorkerPlaylist(j) ==
    /\ j \in workers
    /\ ~jobs[j].opened
    /\ jobs[j].error = NoError
    /\ \E resp \in ConcPlaylistResponses :
           LET nj == PlaylistJob(jobs[j], resp)
           IN  IF nj.state = "Failed"
               THEN /\ jobs' = [jobs EXCEPT ![j] = Raised(jobs[j], nj)]
                    /\ workers' = workers \ {j}
                    /\ disk' = disk
               ELSE /\ jobs' = [jobs EXCEPT ![j] = nj]
                    /\ workers' = workers
                    /\ disk' = (OutputPath(nj) :> <<>>) @@ disk
    /\ UNCHANGED <<variant, REFERER, fn, arg, ret, loop, work_queue>>

\* one turn of the loop of lines 59-62 on a thread of the executor
WorkerSegment(j) ==
    /\ j \in workers
    /\ jobs[j].opened
    /\ jobs[j].idx < Len(jobs[j].segs)
    /\ \E resp \in ConcSegmentResponses :
           LET nj == SegmentJob(jobs[j], resp, Len(resp.body))
           IN  /\ disk' = [disk EXCEPT ![OutputPath(nj)] =
                               Written(@, Drop(nj.file, Len(jobs[j].file)))]
               /\ IF nj.state = "Failed"
                  THEN /\ jobs' = [jobs EXCEPT ![j] = Raised(jobs[j], nj)]
                       /\ workers' = workers \ {j}
                  ELSE /\ jobs' = [jobs EXCEPT ![j] = nj]
                       /\ workers' = workers
    /\ UNCHANGED <<variant, REFERER, fn, arg, ret, loop, work_queue>>

\* download_hls_sync returns: the file is closed and the thread is idle again
WorkerReturn(j) ==
    /\ j \in workers
    /\ jobs[j].opened
    /\ jobs[j].idx = Len(jobs[j].segs)
    /\ workers' = workers \ {j}
    /\ UNCHANGED <<jobs, variant, REFERER, fn, arg, ret, loop, work_queue, disk>>

\* DownloadEnded that misses a call that raised
DownloadEnded_OnlyReturned(j) ==
    /\ jobs[j].state = "Downloading"
    /\ j \notin workers
    /\ \A i \in 1..Len(work_queue) : work_queue[i] # j
    /\ jobs[j].error = NoError

\* the call of download_hls_sync for the job has returned or raised
DownloadEnded(j) ==
    /\ jobs[j].state = "Downloading"
    /\ j \notin workers
    /\ \A i \in 1..Len(work_queue) : work_queue[i] # j

\* the future is done and the loop resumes on_message at line 90: the except
\* clause of lines 91-92, or on to line 95
Resume(j) ==
    /\ LoopFree
    /\ DownloadEnded(j)
    /\ jobs' = [jobs EXCEPT ![j] = IF jobs[j].error # NoError
                                   THEN DownloadFailed(jobs[j], jobs[j].error)
                                   ELSE [jobs[j] EXCEPT !.state = "Merged"]]
    /\ UNCHANGED <<variant, REFERER, fn, arg, ret, conc>>

\* lines 95-101: send_file reads the file at output_ts
SendDisk(j) ==
    /\ LoopFree
    /\ jobs[j].state = "Merged"
    /\ \E ok \in BOOLEAN :
           jobs' = [jobs EXCEPT ![j] =
                      [SendJob([jobs[j] EXCEPT !.file = disk[OutputPath(jobs[j])]], ok)
                          EXCEPT !.file = jobs[j].file]]
    /\ UNCHANGED <<variant, REFERER, fn, arg, ret, conc>>

\* the steps of on_message for message j and of the download it started
JobStep(j) ==
    \/ BeginExtract(j)
    \/ EndExtract(j)
    \/ Submit(j)
    \/ WorkerTake(j)
    \/ WorkerPlaylist(j)
    \/ WorkerSegment(j)
    \/ WorkerReturn(j)
    \/ Resume(j)
    \/ SendDisk(j)
    \/ (LoopFree /\ DeleteStatus(j))

NextConc ==
    \/ HandleMessage
    \/ \E j \in Jobs : BeginExtract(j)
    \/ \E j \in Jobs : EndExtract(j)
    \/ \E j \in Jobs : Submit(j)
    \/ \E j \in Jobs : WorkerTake(j)
    \/ \E j \in Jobs : WorkerPlaylist(j)
    \/ \E j \in Jobs : WorkerSegment(j)
    \/ \E j \in Jobs : WorkerReturn(j)
    \/ \E j \in Jobs : Resume(j)
    \/ \E j \in Jobs : SendDisk(j)
    \/ \E j \in Jobs : LoopFree /\ DeleteStatus(j)

SpecConc == Init /\ [][NextConc]_vars

\* every call returns: the loop runs each ready step of a handler, each thread of
\* the executor goes on, and each host and the messaging client answer
LiveSpec ==
    SpecConc /\ \A j \in 1..MaxConcJobs : WF_vars(j \in Jobs /\ JobStep(j))

(* ---------------------------- properties ------------------------------- *)
Last(s) == s[Len(s)]
UrlsOf(reqs) == [i \in 1..Len(reqs) |-> reqs[i].url]
SegmentRequests(job) == SelectSeq(job.requests, LAMBDA r : r.what = "segment")

RECURSIVE SumLen(_)
SumLen(parts) == IF parts = <<>> THEN 0 ELSE Len(Head(parts)) + SumLen(Tail(parts))

\* the GET of a segment of the job failed
SegFetchFailed(job) ==
    /\ job.error.type = "HTTPError"
    /\ job.requests # <<>>
    /\ Last(job.requests).what = "segment"

\* C1: when the fetch of segment k fails, the job is Failed, the segments requested
\* are exactly segments 1..k (none after k), and nothing was handed to send_file.
C1_SegmentFailureAborts ==
    \A j \in Jobs :
        SegFetchFailed(jobs[j]) =>
            /\ jobs[j].state = "Failed"
            /\ jobs[j].done
            /\ jobs[j].sent = <<>>
            /\ UrlsOf(SegmentRequests(jobs[j])) = SubSeq(jobs[j].segs, 1, jobs[j].idx + 1)
            /\ Len(jobs[j].fetched) = jobs[j].idx

\* segment 2 of 2 failed after segment 1 was written
C1_Witness ==
    \E j \in Jobs :
        /\ SegFetchFailed(jobs[j])
        /\ Len(jobs[j].segs) = 2
        /\ jobs[j].idx = 1
        /\ jobs[j].file # <<>>

\* C2: once a job is Merged, output.ts is the concatenation of the segment bodies in
\* playlist order, its length is the sum of their lengths, and the segments were
\* requested one after another in that order.
C2_ArtifactIsOrderedConcatenation ==
    \A j \in Jobs :
        jobs[j].state \in {"Merged", "Delivered"} =>
            /\ Len(jobs[j].fetched) = Len(jobs[j].segs)
            /\ jobs[j].file = Flatten(jobs[j].fetched)
            /\ Len(jobs[j].file) = SumLen(jobs[j].fetched)
            /\ UrlsOf(SegmentRequests(jobs[j])) = jobs[j].segs
            /\ \A i \in 1..Len(jobs[j].requests) :
                   jobs[j].requests[i].what = "segment"
                   => \A k \in i..Len(jobs[j].requests) : jobs[j].requests[k].what = "segment"

\* a merged job of two segments whose bodies differ
C2_Witness ==
    \E j \in Jobs :
        /\ jobs[j].state = "Merged"
        /\ Len(jobs[j].segs) = 2
        /\ jobs[j].fetched[1] # jobs[j].fetched[2]

\* segments has been called on arg and has returned ret[1]
SegmentsCalled == fn = "segments" /\ ret # <<>>

\* a line of only whitespace, and a line that begins with "#"
IsBlankLine(line) == strip(line) = <<>>
IsCommentLine(line) == StartsWith(line, <<"#">>)
NonCommentNonBlank(ls) == SelectSeq(ls, LAMBDA l : ~IsBlankLine(l) /\ ~IsCommentLine(l))

\* C3: the segment list has one entry per non-comment, non-blank line of the body,
\* in the order of those lines.
C3_OneSegmentPerLine ==
    SegmentsCalled =>
        /\ Len(ret[1]) = Len(NonCommentNonBlank(arg.lines))
        /\ \A i \in 1..Len(ret[1]) :
               ret[1][i] = SegmentUrl(arg.m3u8_url, NonCommentNonBlank(arg.lines)[i])

\* the playlist URL up to and including its last "/"
UpToLastSlash(url) == Take(url, LastIndexOf(url, "/"))

\* the lines the code keeps, in order
KeptLines == SelectSeq(arg.lines, IsSegmentLine)

PathChars == Letters \cup Digits \cup {".", "-", "_"}

\* a path made of ordinary segments: none empty, none "." or ".."
PlainPath(p) ==
    /\ p # <<>>
    /\ \A i \in 1..Len(p) : p[i] \in PathChars \cup {"/"}
    /\ \A i \in 1..Len(Split(p, "/")) :
           Split(p, "/")[i] \notin {<<>>, <<".">>, <<".", ".">>}

\* an http(s) URL scheme://host/path with no query, no fragment and a plain path
PlainPlaylistUrl(url) ==
    \E sch \in {S_http, S_https} :
        /\ StartsWith(url, sch \o <<":", "/", "/">>)
        /\ \E k \in (Len(sch) + 5)..Len(url) :
               /\ url[k] = "/"
               /\ \A m \in (Len(sch) + 4)..(k - 1) : url[m] \in PathChars
               /\ PlainPath(Drop(url, k))

\* scheme://host of a plain playlist URL
OriginOf(url) ==
    Take(url, (CHOOSE k \in 1..Len(url) :
                   url[k] = "/" /\ Cardinality({m \in 1..k : url[m] = "/"}) = 3) - 1)

\* the directory above a base: the base itself at the root
ParentOf(b) ==
    IF Take(b, Len(b) - 1) = OriginOf(b) THEN b
    ELSE Take(b, LastIndexOf(Take(b, Len(b) - 1), "/"))

NonTerminal ==
    {"Pending", "ResolvingEmbed", "PlaylistResolved", "Downloading", "Merged", "Remuxed"}

\* the transitions of a job: the stated order, and Failed from every non-terminal state
JobEdges ==
    {<<"Pending", "ResolvingEmbed">>, <<"Pending", "PlaylistResolved">>,
     <<"ResolvingEmbed", "PlaylistResolved">>, <<"PlaylistResolved", "Downloading">>,
     <<"Downloading", "Merged">>, <<"Merged", "Remuxed">>, <<"Remuxed", "Delivered">>,
     <<"Merged", "Delivered">>}
    \cup {<<st, "Failed">> : st \in NonTerminal}

\* C5: a job changes state only along Pending -> (ResolvingEmbed) -> PlaylistResolved
\* -> Downloading -> Merged -> (Remuxed) -> Delivered or into Failed; Delivered and
\* Failed are left by no transition; a text that holds ".m3u8" never enters
\* ResolvingEmbed and issues no embed-page GET.  (A message that is no request
\* leaves Pending without becoming a job.)
C5_StateOrder ==
    /\ [][/\ \A j \in Jobs :
                (jobs'[j].state # jobs[j].state /\ jobs'[j].state # "Ignored")
                => <<jobs[j].state, jobs'[j].state>> \in JobEdges
          /\ \A j \in (Len(jobs) + 1)..Len(jobs') : jobs'[j].state = "Pending"]_vars
    /\ [](\A j \in Jobs :
              Contains(jobs[j].text, S_m3u8)
              => /\ jobs[j].state # "ResolvingEmbed"
                 /\ \A i \in 1..Len(jobs[j].requests) : jobs[j].requests[i].what # "embed")

\* an embed job has gone through every state up to Delivered
C5_Witness ==
    \E j \in Jobs :
        /\ jobs[j].kind = "EmbedPage"
        /\ jobs[j].state = "Delivered"
        /\ jobs[j].sent # <<>>

\* a messaging call that reports a failure to the caller, with the error text
IsFailureSignal(sig) ==
    /\ sig.op \in {"reply", "edit"}
    /\ Len(sig.text) >= 2
    /\ sig.text[1].lit \in {"Failed to extract playlist URL: ", "Download failed: "}

\* C6: every job that is Failed has emitted a failure signal.
C6_EveryFailureReported ==
    \A j \in Jobs :
        jobs[j].state = "Failed"
        => \E i \in 1..Len(jobs[j].signals) : IsFailureSignal(jobs[j].signals[i])

\* C7: when the GET of the playlist or of a segment failed, a failure signal of the
\* job carries the URL of exactly that GET.
C7_FetchErrorCarriesUrl ==
    \A j \in Jobs :
        (/\ jobs[j].state = "Failed"
         /\ jobs[j].error.type = "HTTPError"
         /\ jobs[j].requests # <<>>
         /\ Last(jobs[j].requests).what \in {"playlist", "segment"})
        => \E i \in 1..Len(jobs[j].signals) :
               /\ IsFailureSignal(jobs[j].signals[i])
               /\ \E k \in 1..Len(jobs[j].signals[i].text) :
                      Contains(jobs[j].signals[i].text[k].val, Last(jobs[j].requests).url)

\* scheme://host/ of a URL: the URL up to and including its third "/"
SchemeHostSlash(url) ==
    IF \E k \in 1..Len(url) : url[k] = "/" /\ Cardinality({m \in 1..k : url[m] = "/"}) = 3
    THEN Take(url, CHOOSE k \in 1..Len(url) :
                       url[k] = "/" /\ Cardinality({m \in 1..k : url[m] = "/"}) = 3)
    ELSE url \o <<"/">>

\* C8: every playlist and segment GET of an embed job carries Referer = the embed
\* page URL, and of a direct job Referer = scheme://host/ of the playlist URL.
C8_RefererPerJob ==
    \A j \in Jobs : \A i \in 1..Len(jobs[j].requests) :
        jobs[j].requests[i].what \in {"playlist", "segment"}
        => /\ "Referer" \in DOMAIN jobs[j].requests[i].headers
           /\ jobs[j].requests[i].headers.Referer =
                  IF jobs[j].kind = "EmbedPage" THEN jobs[j].text
                  ELSE SchemeHostSlash(jobs[j].m3u8_url)

\* extract has been called on arg and has returned or raised ret[1]
ExtractCalled == fn = "extract" /\ ret # <<>>

\* the pieces of the page that are elements with a source attribute naming a .m3u8
SourcePieces == {i \in 1..Len(arg.pieces) : Contains(arg.pieces[i].src, S_m3u8)}

\* C9: when the page holds a structured source reference to a .m3u8, extraction
\* returns the URL of the first such reference, whatever else the page holds.
C9_StructuredSourceWins ==
    (ExtractCalled /\ SourcePieces # {})
    => /\ ret[1].ok
       /\ ret[1].url = arg.pieces[CHOOSE i \in SourcePieces : \A k \in SourcePieces : i <= k].src

\* a src="..." attribute whose value holds ".m3u8"
HasStructuredSource(html) ==
    \E i \in 1..Len(html) :
        /\ Slice(html, i, i + 4) = <<"s", "r", "c", "=", "\"">>
        /\ \E e \in (i + 5)..Len(html) :
               /\ html[e] = "\""
               /\ \A m \in (i + 5)..(e - 1) : html[m] # "\""
               /\ Contains(SubSeq(html, i + 5, e - 1), S_m3u8)

\* an http:// or https:// token that runs, unbroken by whitespace or quotes, into ".m3u8"
HasBareToken(html) ==
    \E i \in 1..Len(html) : \E k \in (i + 8)..Len(html) :
        /\ \/ Slice(html, i, i + 6) = S_http \o <<":", "/", "/">>
           \/ (Slice(html, i, i + 7) = S_https \o <<":", "/", "/">> /\ k >= i + 9)
        /\ Slice(html, k, k + 4) = S_m3u8
        /\ \A m \in i..(k + 4) : html[m] \notin RegexDelims

\* the job fetched its embed page and the page holds no playlist URL of either form
PageWithoutUrl(job) ==
    /\ job.kind = "EmbedPage"
    /\ job.state # "ResolvingEmbed"
    /\ job.requests # <<>>
    /\ ~(job.error.type = "HTTPError" /\ Len(job.requests) = 1)
    /\ ~HasStructuredSource(job.html)
    /\ ~HasBareToken(job.html)

\* C10: when the embed page holds neither a structured source reference nor a bare
\* http(s) .m3u8 token, extraction raises (ValueError when the page decodes), the
\* job is Failed with the extraction failure replied, the embed-page GET is its only
\* request, no scratch directory or file is made and nothing is sent.
C10_NoUrlNoDownload ==
    \A j \in Jobs :
        PageWithoutUrl(jobs[j])
        => /\ jobs[j].state = "Failed"
           /\ jobs[j].done
           /\ jobs[j].error.type \in {"ValueError", "UnicodeDecodeError"}
           /\ CanDecode(jobs[j].html) => jobs[j].error.type = "ValueError"
           /\ IsFailureSignal(Last(jobs[j].signals))
           /\ Last(jobs[j].signals).text[1].lit = "Failed to extract playlist URL: "
           /\ UrlsOf(jobs[j].requests) = <<jobs[j].text>>
           /\ jobs[j].requests[1].what = "embed"
           /\ jobs[j].tmpdir = 0
           /\ ~jobs[j].opened
           /\ jobs[j].sent = <<>>

\* a job whose page mentions .m3u8 but holds no URL has failed with ValueError
C10_Witness ==
    \E j \in Jobs :
        /\ PageWithoutUrl(jobs[j])
        /\ jobs[j].html = PAGE_NOHTTP
        /\ jobs[j].error.type = "ValueError"

\* the GETs of one kind that a job has issued, in order
RequestsOf(job, what) == SelectSeq(job.requests, LAMBDA r : r.what = what)

\* C11: within a job the embed page is requested at most once, the playlist at most
\* once and exactly once by the time the output is open, and the i-th segment
\* request is the request of segment i, so no segment is requested twice; a failed
\* GET ends the job, and a job that has failed issues no request any more.
C11_EachOperationOnce ==
    /\ [](\A j \in Jobs :
            /\ Len(RequestsOf(jobs[j], "embed")) <= 1
            /\ Len(RequestsOf(jobs[j], "playlist")) <= 1
            /\ (jobs[j].opened \/ jobs[j].state \in {"Merged", "Delivered"})
                   => Len(RequestsOf(jobs[j], "playlist")) = 1
            /\ Len(SegmentRequests(jobs[j])) <= Len(jobs[j].segs)
            /\ UrlsOf(SegmentRequests(jobs[j]))
                   = SubSeq(jobs[j].segs, 1, Len(SegmentRequests(jobs[j])))
            /\ jobs[j].error.type = "HTTPError" => (jobs[j].state = "Failed" /\ jobs[j].done))
    /\ [][\A j \in Jobs : jobs[j].error # NoError => jobs'[j].requests = jobs[j].requests]_vars

\* an embed job whose second segment GET failed: four requests, each made once
C11_Witness ==
    \E j \in Jobs :
        /\ jobs[j].kind = "EmbedPage"
        /\ SegFetchFailed(jobs[j])
        /\ Len(jobs[j].requests) = 4
        /\ jobs[j].done

\* C12: a text that holds ".m3u8" is a DirectPlaylist and causes no embed-page GET;
\* a text without ".m3u8" that holds the embed-page pattern is an EmbedPage; any
\* other text is ignored: no signal, no request, no scratch directory.
C12_InputClassification ==
    \A j \in Jobs :
        jobs[j].state # "Pending" =>
            IF Contains(jobs[j].text, S_m3u8)
            THEN jobs[j].kind = "DirectPlaylist" /\ RequestsOf(jobs[j], "embed") = <<>>
            ELSE IF Contains(jobs[j].text, S_embed)
            THEN jobs[j].kind = "EmbedPage"
            ELSE /\ jobs[j].state = "Ignored"
                 /\ jobs[j].kind = "none"
                 /\ jobs[j].signals = <<>>
                 /\ jobs[j].requests = <<>>
                 /\ jobs[j].tmpdir = 0
                 /\ ~jobs[j].opened

\* C19 (as stated): at every moment of a download output.ts is exactly the bodies of
\* the segments fetched so far, in order; it never holds part of a segment body.
C19_FileIsWholeSegments ==
    \A j \in Jobs :
        /\ jobs[j].file = Flatten(jobs[j].fetched)
        /\ Len(jobs[j].fetched) = jobs[j].idx
        /\ jobs[j].idx <= Len(jobs[j].segs)

\* C19 (amended): as long as no write has failed, output.ts is exactly the bodies of
\* the segments fetched so far, in order; after the GET of segment k failed it holds
\* segments 1..k-1.  When the write of a segment body fails, the file holds the
\* segments fetched before it followed by a proper prefix of one segment body.
C19_FileIsSegmentsThenPrefix ==
    \A j \in Jobs :
        /\ Len(jobs[j].fetched) = jobs[j].idx
        /\ jobs[j].idx <= Len(jobs[j].segs)
        /\ jobs[j].error.type # "OSError" => jobs[j].file = Flatten(jobs[j].fetched)
        /\ SegFetchFailed(jobs[j])
               => /\ Len(jobs[j].fetched) = Len(SegmentRequests(jobs[j])) - 1
                  /\ jobs[j].file = Flatten(jobs[j].fetched)
        /\ jobs[j].error.type = "OSError"
               => /\ jobs[j].state = "Failed"
                  /\ \E resp \in SegmentResponses : \E n \in 0..(Len(resp.body) - 1) :
                         jobs[j].file = Flatten(jobs[j].fetched) \o Take(resp.body, n)

\* the write of the second segment failed half way: the file ends in half a body
C19_Witness ==
    \E j \in Jobs :
        /\ jobs[j].error.type = "OSError"
        /\ Len(jobs[j].fetched) = 1
        /\ Len(jobs[j].file) > Len(Flatten(jobs[j].fetched))

\* the playlist GET of the job succeeded and its body holds no segment line
EmptyPlaylistFetched(job) ==
    /\ Len(RequestsOf(job, "playlist")) = 1
    /\ job.segs = <<>>
    /\ job.error.type \notin {"HTTPError", "UnicodeDecodeError"}

\* C20: a playlist that is fetched and yields no segment does not fail the download:
\* no segment is requested, output.ts is created empty, the next state of the job
\* is Merged, the empty file is what send_file is given, and the only failure left
\* is the one of the delivery.
C20_EmptyPlaylistDelivered ==
    /\ [](\A j \in Jobs :
            EmptyPlaylistFetched(jobs[j])
            => /\ jobs[j].opened
               /\ SegmentRequests(jobs[j]) = <<>>
               /\ jobs[j].file = <<>>
               /\ jobs[j].error.type \in {"none", "DeliveryError"}
               /\ jobs[j].state \in {"Downloading", "Merged", "Delivered", "Failed"}
               /\ jobs[j].state = "Delivered" => jobs[j].sent = <<<<>>>>)
    /\ [][\A j \in Jobs :
            (EmptyPlaylistFetched(jobs[j]) /\ jobs[j].state = "Downloading"
             /\ jobs'[j] # jobs[j])
            => jobs'[j].state = "Merged"]_vars

\* a job with an empty playlist has delivered an empty file
C20_Witness ==
    \E j \in Jobs :
        /\ EmptyPlaylistFetched(jobs[j])
        /\ jobs[j].state = "Delivered"
        /\ jobs[j].sent = <<<<>>>>

\* the lines a parse that strips every line first would keep, stripped
StrippedKept(ls) ==
    SelectSeq([i \in 1..Len(ls) |-> strip(ls[i])],
              LAMBDA l : l # <<>> /\ ~StartsWith(l, <<"#">>))

\* C17: every line is stripped of surrounding whitespace before it is classified: a
\* line empty after stripping and a line whose first non-blank character is "#"
\* give no segment, and a kept line gives the segment of the stripped line.
C17_LinesStripped ==
    SegmentsCalled =>
        /\ Len(ret[1]) = Len(StrippedKept(arg.lines))
        /\ \A i \in 1..Len(ret[1]) :
               ret[1][i] = SegmentUrl(arg.m3u8_url, StrippedKept(arg.lines)[i])

\* a decoding that drops the bytes it cannot decode
LenientDecode(bytes) == SelectSeq(bytes, LAMBDA b : b # BadByte)

\* C18: when the page holds undecodable bytes, they are dropped and the extraction
\* works on the rest: a page with a .m3u8 URL and undecodable bytes elsewhere gives
\* that URL.
C18_LenientDecoding ==
    (ExtractCalled /\ ~CanDecode(arg.body) /\ re_search(LenientDecode(arg.body)) # <<>>)
    => /\ ret[1].ok
       /\ ret[1].url = re_search(LenientDecode(arg.body))

\* a blocking call of the job is in flight: urlopen of the embed page, or
\* download_hls_sync with its GETs and writes
BlockingInFlight(j) == loop = j \/ j \in workers

\* C13: no blocking call of a job runs on the loop thread, and while one is in
\* flight the loop can still dispatch a new message to on_message.
C13_BlockingWorkOffLoop ==
    \A j \in Jobs :
        BlockingInFlight(j)
        => /\ loop # j
           /\ Len(jobs) < MaxConcJobs => ENABLED HandleMessage

\* the jobs that have a scratch directory
WithDir == {j \in Jobs : jobs[j].tmpdir # 0}

C15_EveryJobTerminates ==
    \A j \in 1..MaxConcJobs :
        (j \in Jobs /\ jobs[j].kind # "none")
            ~> (j \in Jobs /\ jobs[j].state \in {"Delivered", "Failed"})

\* every job of the run has ended, one delivered and one failed
C15_Witness ==
    /\ Len(jobs) = MaxConcJobs
    /\ \A j \in Jobs : jobs[j].state \in {"Delivered", "Failed"}
    /\ \E j \in Jobs : jobs[j].state = "Delivered"
    /\ \E j \in Jobs : jobs[j].state = "Failed"

\* the job's call of download_hls_sync waits in the queue of the executor
InQueue(j) == \E i \in 1..Len(work_queue) : work_queue[i] = j

\* C16 (as stated): a download never waits for another download: a call in the
\* queue of the executor always has a thread to run on.
C16_NoDownloadWaits ==
    \A j \in Jobs : InQueue(j) => HasIdleWorker

\* C16 (amended): any number of jobs is accepted, but at most max_workers downloads
\* run at the same time; a further download waits in the queue, first in first out,
\* and starts as soon as a thread is idle.
C16_DownloadsBoundedByPool ==
    /\ Cardinality(workers) <= max_workers
    /\ \A j \in workers : jobs[j].state = "Downloading" /\ ~InQueue(j)
    /\ \A j \in Jobs : InQueue(j) => (jobs[j].state = "Downloading" /\ jobs[j].requests
                                          = RequestsOf(jobs[j], "embed"))
    /\ \A a \in 1..Len(work_queue) : \A b \in 1..Len(work_queue) :
           a < b => jobs[work_queue[a]].tmpdir < jobs[work_queue[b]].tmpdir
    /\ (work_queue # <<>> /\ Cardinality(workers) < max_workers)
           => ENABLED WorkerTake(Head(work_queue))

\* every thread of the executor runs a download and one more job waits
C16_Witness ==
    /\ Cardinality(workers) = max_workers
    /\ \A j \in workers : jobs[j].opened
    /\ work_queue # <<>>

====
